---- MODULE Spec2Model ----
(***************************************************************************)
(* Model of nn_with_python/nn.py: class NeuralNetwork.                     *)
(*                                                                         *)
(* Tensors are modelled by their shape <<rows, cols>>; a weight or bias    *)
(* tensor also carries `val`, the value of its entries (np.zeros gives 0,  *)
(* np.random.randn a nondeterministic choice), so that a tensor's identity *)
(* and the sum of its squares are observable.  An activation output        *)
(* carries `fn`, the formula that produced it from the pre-activation.     *)
(* A Python exception ends the method where it is raised: what the method  *)
(* assigned before stays assigned, and `call.exc` names the exception.     *)
(***************************************************************************)
EXTENDS Integers, Sequences, FiniteSets, TLC

\* ---------------------------------------------------------------- bounds
\* layer widths are 1 .. MaxDim, batch sizes 1 .. MaxBatch, and a network
\* has at most MaxLayers layers
MaxDim == 2
MaxBatch == 1
MaxLayers == 2
MaxInstances == 2

Dims == 1..MaxDim
\* shapes of the tensors handed to forward, the losses and backward
Batches == 1..MaxBatch
Shapes == Dims \X Batches
\* values np.random.randn can draw for the entries of a weight tensor
WeightVals == {0, 1}
\* values the caller gives the regularization hyper-parameter
Lambs == {0, 1, 2}

SeqsUpTo(S, n) == UNION {[1..k -> S] : k \in 0..n}

\* selectors the activations arguments are drawn from, of those __activate
\* and __deactivate compare ("None" is Python's None): the identity and one
\* activation that needs the cached pre-activation
ArgSelectors == {"None", "relu"}

\* layer_dimensions / dims arguments describing up to MaxLayers layers, up
\* to one layer and up to two layers
DimsArgs == SeqsUpTo(Dims, MaxLayers + 1)
DimsArgs1 == SeqsUpTo(Dims, 2)
DimsArgs2 == SeqsUpTo(Dims, 3)
\* at most one layer of one unit on one input
DimsArgsUnit == SeqsUpTo({1}, 2)
\* activations arguments: up to MaxLayers selectors, and up to one
ActsArgs == SeqsUpTo(ArgSelectors, MaxLayers)
ActsArgs1 == SeqsUpTo(ArgSelectors, 1)

VARIABLES
    parameters,     \* self.parameters: key -> tensor
    cache,          \* self.cache: list of [linear_cache, act_cache]
    activations,    \* self.activations
    cost_function,  \* self.cost_function
    lamb,           \* self.lamb
    grads,          \* self.grads: key -> tensor shape
    layer_type,     \* self.layer_type
    call,           \* the last method called: op, the exception it raised
                    \* (exc), arguments and return value where a property
                    \* reads them, and phase: 1 after a forward that
                    \* returned, 2 after a loss that returned right after
                    \* it, 3 after a backward called right after that
    heap,           \* the list objects that self.activations of the
                    \* instances below refer to; heap[DefaultList] is the
                    \* list of the default argument of __init__
    instances       \* the instances of the specification SpecInstances;
                    \* the attribute activations is a reference into heap

vars == <<parameters, cache, activations, cost_function, lamb, grads,
          layer_type, call, heap, instances>>

\* ------------------------------------------------------- Python helpers
\* "W" + str(i)
Key(name, i) == <<name, i>>

\* d[k] = v on a dict
DictSet(d, k, v) == [x \in (DOMAIN d) \cup {k} |-> IF x = k THEN v ELSE d[x]]

EmptyDict == [x \in {} |-> 0]

\* int(len(self.parameters)/2)
NumLayers(p) == Cardinality(DOMAIN p) \div 2

\* ------------------------------------------------------ numpy on shapes
NoShape == <<0, 0>>

Exc(type, at) == [type |-> type, at |-> at]
NoExc == Exc("none", "")

\* W.dot(A): the inner dimensions must agree
Dot(s, t) == IF s[2] = t[1] THEN <<s[1], t[2]>> ELSE NoShape

BroadcastDim(m, n) == IF m = n THEN m ELSE IF m = 1 THEN n ELSE IF n = 1 THEN m ELSE 0

\* elementwise operation on two arrays
Broadcast(s, t) ==
    IF BroadcastDim(s[1], t[1]) = 0 \/ BroadcastDim(s[2], t[2]) = 0
    THEN NoShape
    ELSE <<BroadcastDim(s[1], t[1]), BroadcastDim(s[2], t[2])>>

Transpose(s) == <<s[2], s[1]>>

\* ------------------------------------------------ initialize_parameters
\* InitStep with the two dimensions of the weight tensor exchanged
InitStepTransposed(st, dims, vals, i, num_layers) ==
    [parameters |->
        DictSet(DictSet(st.parameters,
                        Key("W", num_layers + i),
                        [shape |-> <<dims[i], dims[i + 1]>>, val |-> vals[i]]),
                Key("b", i + num_layers),
                [shape |-> <<dims[i + 1], 1>>, val |-> 0]),
     layer_type |-> Append(st.layer_type, "fc")]

\* one pass of the loop body for Python index i (dims is 1-based here, so
\* layer_dimensions[i] is dims[i+1] and layer_dimensions[i-1] is dims[i])
InitStep(st, dims, vals, i, num_layers) ==
    [parameters |->
        DictSet(DictSet(st.parameters,
                        Key("W", num_layers + i),
                        [shape |-> <<dims[i + 1], dims[i]>>, val |-> vals[i]]),
                Key("b", i + num_layers),
                [shape |-> <<dims[i + 1], 1>>, val |-> 0]),
     layer_type |-> Append(st.layer_type, "fc")]

RECURSIVE InitLoop(_, _, _, _, _)
InitLoop(st, dims, vals, i, num_layers) ==
    IF i >= Len(dims) THEN st
    ELSE InitLoop(InitStep(st, dims, vals, i, num_layers),
                  dims, vals, i + 1, num_layers)

\* initialize_parameters numbering the new layers from 1, whatever the
\* store holds
initialize_parameters_from_one(p, lt, dims, vals) ==
    InitLoop([parameters |-> p, layer_type |-> lt], dims, vals, 1, 0)

\* vals: the draws of np.random.randn, one per new layer
initialize_parameters(p, lt, dims, vals) ==
    InitLoop([parameters |-> p, layer_type |-> lt], dims, vals, 1, NumLayers(p))

\* the random draws an initialize_parameters(dims) call can make
Draws(dims, WV) == [1..(IF Len(dims) = 0 THEN 0 ELSE Len(dims) - 1) -> WV]

\* ----------------------------------------------------- check_activations
RECURSIVE check_activations(_, _)
check_activations(acts, p) ==
    IF Len(acts) < NumLayers(p)
    THEN check_activations(Append(acts, "None"), p)
    ELSE acts

\* -------------------------------------------------------------- __init__
\* construction with arguments from DA and AA and draws from WV
Construct(DA, AA, WV) ==
    \E layer_dimensions \in DA, acts \in AA :
      \E vals \in Draws(layer_dimensions, WV) :
        LET st == initialize_parameters(EmptyDict, <<"">>, layer_dimensions, vals)
        IN  /\ NumLayers(st.parameters) <= MaxLayers
            /\ parameters = st.parameters
            /\ cache = <<>>
            /\ activations = check_activations(acts, st.parameters)
            /\ cost_function = ""
            /\ lamb = 0
            /\ grads = EmptyDict
            /\ layer_type = st.layer_type
            /\ call = [op |-> "__init__", exc |-> NoExc, phase |-> 0,
                       args |-> <<layer_dimensions, acts>>]
            /\ heap = <<<<>>>>
            /\ instances = <<>>

\* --------------------------------------------------------------- add_fcn
add_fcn(DA, AA, WV) ==
    \E dims \in DA, acts \in AA :
      \E vals \in Draws(dims, WV) :
        LET st == initialize_parameters(parameters, layer_type, dims, vals)
        IN  /\ NumLayers(st.parameters) <= MaxLayers
            /\ Len(activations) + Len(acts) <= MaxLayers + 1
            /\ parameters' = st.parameters
            /\ layer_type' = st.layer_type
            /\ activations' = activations \o acts
            /\ call' = [op |-> "add_fcn", exc |-> NoExc, phase |-> 0]
            /\ UNCHANGED <<heap, instances, cache, cost_function, lamb, grads>>

CheckActivations ==
    /\ activations' = check_activations(activations, parameters)
    /\ call' = [op |-> "check_activations", exc |-> NoExc, phase |-> 0]
    /\ UNCHANGED <<heap, instances, parameters, cache, cost_function, lamb, grads, layer_type>>

\* -------------------------------------------------------- __linear_forward
linear_forward(A_prev, W, b) ==
    LET WA == Dot(W.shape, A_prev.shape)
        Z == IF WA = NoShape THEN NoShape ELSE Broadcast(WA, b.shape)
    IN  [exc |-> IF Z = NoShape THEN Exc("ValueError", "W.dot(A_prev) + b") ELSE NoExc,
         Z |-> Z,
         linear_cache |-> [A_prev |-> A_prev, W |-> W, b |-> b]]

\* -------------------------------------------------------------- __activate
\* Z is a shape, or NoShape for Python's None
activate(acts, Z, n_layer) ==
    IF n_layer > Len(acts)
    THEN [exc |-> Exc("IndexError", "activations"), act |-> [shape |-> NoShape, fn |-> "None"],
          act_cache |-> <<Z>>]
    ELSE [exc |-> NoExc,
          act |-> IF acts[n_layer] = "None" THEN [shape |-> Z, fn |-> "Z"]
                  ELSE IF acts[n_layer] \in {"relu", "tanh", "sigmoid", "softmax"}
                       THEN [shape |-> Z, fn |-> acts[n_layer]]
                  ELSE [shape |-> NoShape, fn |-> "None"],
          act_cache |-> <<Z>>]

\* ----------------------------------------------------------------- forward
\* one pass of the loop over the layers 1 .. L-1
ForwardStep(p, acts, lt, A, i) ==
    IF Key("W", i) \notin DOMAIN p \/ Key("b", i) \notin DOMAIN p
    THEN [exc |-> Exc("KeyError", "parameters"), A |-> A, rec |-> <<>>]
    ELSE IF i + 1 > Len(lt)
    THEN [exc |-> Exc("IndexError", "layer_type"), A |-> A, rec |-> <<>>]
    ELSE IF lt[i + 1] # "fc"
    THEN \* 'conv' reads self.hyperparam[i], which is empty; otherwise Z is None
         [exc |-> IF lt[i + 1] = "conv" THEN Exc("KeyError", "hyperparam")
                  ELSE Exc("TypeError", "Z is None"),
          A |-> A, rec |-> <<>>]
    ELSE LET lin == linear_forward(A, p[Key("W", i)], p[Key("b", i)])
             act == activate(acts, lin.Z, i)
         IN  IF lin.exc # NoExc THEN [exc |-> lin.exc, A |-> A, rec |-> <<>>]
             ELSE IF act.exc # NoExc THEN [exc |-> act.exc, A |-> A, rec |-> <<>>]
             ELSE [exc |-> NoExc, A |-> act.act,
                   rec |-> <<[linear |-> lin.linear_cache, act |-> act.act_cache]>>]

RECURSIVE ForwardLoop(_, _, _, _, _, _)
ForwardLoop(p, acts, lt, A, c, i) ==
    IF i >= NumLayers(p) THEN [exc |-> NoExc, A |-> A, cache |-> c]
    ELSE LET s == ForwardStep(p, acts, lt, A, i)
         IN  IF s.exc # NoExc THEN [exc |-> s.exc, A |-> A, cache |-> c]
             ELSE ForwardLoop(p, acts, lt, s.A, c \o s.rec, i + 1)

\* the part after the loop ("For Last Layer")
ForwardLast(p, acts, A, c) ==
    LET L == NumLayers(p) IN
    IF Key("W", L) \notin DOMAIN p \/ Key("b", L) \notin DOMAIN p
    THEN [exc |-> Exc("KeyError", "parameters"), A |-> A, cache |-> c]
    ELSE LET lin == linear_forward(A, p[Key("W", L)], p[Key("b", L)])
             act == activate(acts, lin.Z, Len(acts))
         IN  IF lin.exc # NoExc THEN [exc |-> lin.exc, A |-> A, cache |-> c]
             ELSE IF 2 * Len(acts) = Cardinality(DOMAIN p)
             THEN IF act.exc # NoExc THEN [exc |-> act.exc, A |-> A, cache |-> c]
                  ELSE [exc |-> NoExc, A |-> act.act,
                        cache |-> Append(c, [linear |-> lin.linear_cache,
                                             act |-> act.act_cache])]
             ELSE [exc |-> NoExc, A |-> [shape |-> lin.Z, fn |-> "Z"],
                   cache |-> Append(c, [linear |-> lin.linear_cache,
                                        act |-> <<NoShape>>])]

\* forward without the reset of self.cache
ForwardKeepCache(p, acts, lt, net_input, c0) ==
    LET loop == ForwardLoop(p, acts, lt, net_input, cache, 1)
    IN  IF loop.exc # NoExc THEN loop
        ELSE ForwardLast(p, acts, loop.A, loop.cache)

\* self.cache = [] and the two parts; c0 is the cache the call starts from
Forward(p, acts, lt, net_input, c0) ==
    LET loop == ForwardLoop(p, acts, lt, net_input, c0, 1)
    IN  IF loop.exc # NoExc THEN loop
        ELSE ForwardLast(p, acts, loop.A, loop.cache)

forward ==
    \E x \in Shapes :
        LET net_input == [shape |-> x, fn |-> "input"]
            r == Forward(parameters, activations, layer_type, net_input, <<>>)
        IN  /\ cache' = r.cache
            /\ call' = [op |-> "forward", exc |-> r.exc,
                        phase |-> IF r.exc = NoExc THEN 1 ELSE 0,
                        args |-> <<net_input>>, ret |-> r.A]
            /\ UNCHANGED <<heap, instances, parameters, activations, cost_function, lamb, grads,
                           layer_type>>

\* ------------------------------------------------------- MSELoss, CrossEntropyLoss
\* np.sum(np.square(W))
SumSquares(W) == W.shape[1] * W.shape[2] * W.val * W.val

\* the loop "for params in range(len(self.cache))", from Python index k on
RECURSIVE RegularizationLoop(_, _, _)
RegularizationLoop(p, c, k) ==
    IF k >= Len(c) THEN [exc |-> NoExc, sum |-> 0]
    ELSE IF Key("W", k + 1) \notin DOMAIN p
    THEN [exc |-> Exc("KeyError", "parameters"), sum |-> 0]
    ELSE LET rest == RegularizationLoop(p, c, k + 1)
         IN  [exc |-> rest.exc, sum |-> SumSquares(p[Key("W", k + 1)]) + rest.sum]

\* the regularization cost (lamb/(2*prediction.shape[1]))*regularization_cost
\* as the fraction num/den
RegularizationCost(p, c, l, prediction) ==
    LET loop == IF l # 0 THEN RegularizationLoop(p, c, 0)
                ELSE [exc |-> NoExc, sum |-> 0]
    IN  [exc |-> loop.exc, num |-> l * loop.sum, den |-> 2 * prediction[2]]

\* the value a loss function returns: the base loss of (prediction, mappings)
\* under formula `kind`, plus the regularization cost num/den
Loss(kind, p, c, l, prediction, mappings) ==
    IF Broadcast(prediction, mappings) = NoShape
    THEN [exc |-> Exc("ValueError", "prediction, mappings"),
          ret |-> [kind |-> kind, num |-> 0, den |-> 1]]
    ELSE LET reg == RegularizationCost(p, c, l, prediction)
         IN  [exc |-> reg.exc,
              ret |-> [kind |-> kind, num |-> reg.num, den |-> reg.den]]

MSELoss ==
    \E prediction \in Shapes, mappings \in Shapes :
        LET r == Loss("MSELoss", parameters, cache, lamb, prediction, mappings)
        IN  /\ cost_function' = "MSELoss"
            /\ call' = [op |-> "MSELoss", exc |-> r.exc,
                        phase |-> IF r.exc = NoExc /\ call.phase = 1 THEN 2 ELSE 0,
                        ret |-> r.ret]
            /\ UNCHANGED <<heap, instances, parameters, cache, activations, lamb, grads, layer_type>>

CrossEntropyLoss ==
    \E prediction \in Shapes, mappings \in Shapes :
        LET r == Loss("CrossEntropyLoss", parameters, cache, lamb, prediction, mappings)
        IN  /\ cost_function' = "CrossEntropyLoss"
            /\ call' = [op |-> "CrossEntropyLoss", exc |-> r.exc,
                        phase |-> IF r.exc = NoExc /\ call.phase = 1 THEN 2 ELSE 0,
                        ret |-> r.ret]
            /\ UNCHANGED <<heap, instances, parameters, cache, activations, lamb, grads, layer_type>>

\* --------------------------------------------------------- output_backward
\* str.lower() on the values cost_function takes
Lower(str) ==
    IF str = "MSELoss" THEN "mseloss"
    ELSE IF str = "CrossEntropyLoss" THEN "crossentropyloss"
    ELSE str

\* Python's None where a gradient tensor is expected
NoneTensor == [shape |-> NoShape, fn |-> "None"]

\* output_backward with the mse formula for every selected loss
output_backward_mse(cost, prediction, mapping) ==
    IF Lower(cost) \in {"crossentropyloss", "mseloss"}
    THEN IF Broadcast(prediction, mapping) = NoShape
         THEN [exc |-> Exc("ValueError", "prediction, mapping"), dA |-> NoneTensor]
         ELSE [exc |-> NoExc,
               dA |-> [shape |-> Broadcast(prediction, mapping),
                       fn |-> "prediction-mapping"]]
    ELSE [exc |-> NoExc, dA |-> NoneTensor]

output_backward(cost, prediction, mapping) ==
    IF Lower(cost) \in {"crossentropyloss", "mseloss"}
    THEN IF Broadcast(prediction, mapping) = NoShape
         THEN [exc |-> Exc("ValueError", "prediction, mapping"), dA |-> NoneTensor]
         ELSE [exc |-> NoExc,
               dA |-> [shape |-> Broadcast(prediction, mapping),
                       fn |-> IF Lower(cost) = "crossentropyloss"
                              THEN "-(mapping/prediction - (1-mapping)/(1-prediction))"
                              ELSE "prediction-mapping"]]
    ELSE [exc |-> NoExc, dA |-> NoneTensor]

\* ------------------------------------------------------------ __deactivate
\* seq[k] for a Python index k: the 1-based position, or 0 when out of range
PyIndex(seq, k) ==
    LET j == IF k < 0 THEN k + Len(seq) ELSE k
    IN  IF j >= 0 /\ j < Len(seq) THEN j + 1 ELSE 0

\* the shape of deact; <<1, 1>> is the scalar 1, NoShape is None
deactivate(c, acts, dA, n_layer) ==
    LET dZ == c[PyIndex(c, n_layer - 1)].act[1]
        a == PyIndex(acts, n_layer - 1)
    IN  IF a = 0 THEN [exc |-> Exc("IndexError", "activations"), deact |-> NoShape]
        ELSE IF acts[a] = "None" THEN [exc |-> NoExc, deact |-> <<1, 1>>]
        ELSE IF acts[a] = "relu"
        THEN IF dZ = NoShape THEN [exc |-> Exc("TypeError", "None > 0"), deact |-> NoShape]
             ELSE [exc |-> NoExc, deact |-> dZ]
        ELSE IF acts[a] = "tanh" THEN [exc |-> NoExc, deact |-> dA.shape]
        ELSE IF acts[a] \in {"sigmoid", "softmax"}
        THEN IF dZ = NoShape THEN [exc |-> Exc("TypeError", "-None"), deact |-> NoShape]
             ELSE [exc |-> NoExc, deact |-> dZ]
        ELSE [exc |-> NoExc, deact |-> NoShape]

\* ------------------------------------------------------- __linear_backward
BackwardFail(exc) == [exc |-> exc, dW |-> NoneTensor, db |-> NoneTensor,
                      dA_prev |-> NoneTensor]

\* the asserts and the return, given the three gradients
LinearBackwardAssert(lc, dA, dZ, dW, dA_prev) ==
    IF dW = NoShape THEN BackwardFail(Exc("ValueError", "dW"))
    ELSE IF dA_prev = NoShape THEN BackwardFail(Exc("ValueError", "W.T.dot(dZ)"))
    ELSE IF dA_prev # lc.A_prev.shape THEN BackwardFail(Exc("AssertionError", "A_prev"))
    ELSE IF dW # lc.W.shape THEN BackwardFail(Exc("AssertionError", "dW"))
    ELSE IF <<dZ[1], 1>> # lc.b.shape THEN BackwardFail(Exc("AssertionError", "db"))
    ELSE [exc |-> NoExc,
          dW |-> [shape |-> dW, fn |-> dA.fn],
          db |-> [shape |-> <<dZ[1], 1>>, fn |-> dA.fn],
          dA_prev |-> [shape |-> dA_prev, fn |-> dA.fn]]

\* dW, db and dA_prev from dZ
LinearBackwardGrads(lc, p, dA, n_layer, dZ) ==
    IF dZ = NoShape THEN BackwardFail(Exc("ValueError", "dA * deact"))
    ELSE IF Dot(dZ, Transpose(lc.A_prev.shape)) = NoShape
    THEN BackwardFail(Exc("ValueError", "dZ.dot(A_prev.T)"))
    ELSE IF Key("W", n_layer) \notin DOMAIN p
    THEN BackwardFail(Exc("KeyError", "parameters"))
    ELSE LinearBackwardAssert(lc, dA, dZ,
             Broadcast(Dot(dZ, Transpose(lc.A_prev.shape)), p[Key("W", n_layer)].shape),
             Dot(Transpose(lc.W.shape), dZ))

\* dZ = dA * deact, given the outcome de of __deactivate
LinearBackwardDeact(lc, p, dA, n_layer, de) ==
    IF de.exc # NoExc THEN BackwardFail(de.exc)
    ELSE IF de.deact = NoShape THEN BackwardFail(Exc("TypeError", "dA * None"))
    ELSE LinearBackwardGrads(lc, p, dA, n_layer, Broadcast(dA.shape, de.deact))

linear_backward(c, acts, p, dA, n_layer) ==
    IF dA = NoneTensor THEN BackwardFail(Exc("AttributeError", "dA.shape"))
    ELSE IF PyIndex(c, n_layer - 1) = 0 THEN BackwardFail(Exc("IndexError", "cache"))
    ELSE LinearBackwardDeact(c[PyIndex(c, n_layer - 1)].linear, p, dA, n_layer,
                             deactivate(c, acts, dA, n_layer))

\* ---------------------------------------------------------------- backward
\* the three assignments of one layer's results
SetGrads(g, r, n) ==
    DictSet(DictSet(DictSet(g, Key("dW", n), r.dW), Key("db", n), r.db),
            Key("dA", n - 1), r.dA_prev)

\* the assignments of one pass, given the outcome r of __linear_backward
BackwardStepSet(g, r, l) ==
    IF r.exc # NoExc THEN [exc |-> r.exc, grads |-> g]
    ELSE [exc |-> NoExc, grads |-> SetGrads(g, r, l + 1)]

\* one pass of the loop over reversed(range(layer_num-1)), Python index l;
\* lt is self.layer_type[1:]
BackwardStep(c, acts, p, lt, g, l) ==
    IF PyIndex(lt, l) = 0 THEN [exc |-> Exc("IndexError", "layer_type"), grads |-> g]
    ELSE IF lt[PyIndex(lt, l)] = "fc"
    THEN IF Key("dA", l + 1) \notin DOMAIN g
         THEN [exc |-> Exc("KeyError", "grads"), grads |-> g]
         ELSE BackwardStepSet(g, linear_backward(c, acts, p, g[Key("dA", l + 1)], l + 1), l)
    ELSE IF lt[PyIndex(lt, l)] = "conv"
    THEN [exc |-> Exc("AttributeError", "conv_backward"), grads |-> g]
    ELSE [exc |-> NoExc, grads |-> SetGrads(g, BackwardFail(NoExc), l + 1)]

RECURSIVE BackwardLoop(_, _, _, _, _, _)
\* the rest of the loop after the pass with outcome s
BackwardNext(c, acts, p, lt, l, s) ==
    IF s.exc # NoExc THEN s
    ELSE BackwardLoop(c, acts, p, lt, s.grads, l - 1)

BackwardLoop(c, acts, p, lt, g, l) ==
    IF l < 0 THEN [exc |-> NoExc, grads |-> g]
    ELSE BackwardNext(c, acts, p, lt, l, BackwardStep(c, acts, p, lt, g, l))

\* self.layer_type = temp, unless the loop raised
BackwardRestore(lt, loop) ==
    IF loop.exc # NoExc
    THEN [exc |-> loop.exc, grads |-> loop.grads, layer_type |-> SubSeq(lt, 2, Len(lt))]
    ELSE [exc |-> NoExc, grads |-> loop.grads, layer_type |-> lt]

\* from the assignment of the last layer's gradients on, given the outcome
\* `last` of its __linear_backward
BackwardLast(c, acts, p, lt, g, last) ==
    IF last.exc # NoExc THEN [exc |-> last.exc, grads |-> g, layer_type |-> lt]
    ELSE BackwardRestore(lt,
             BackwardLoop(c, acts, p, SubSeq(lt, 2, Len(lt)),
                          SetGrads(g, last, Len(c)), Len(c) - 2))

\* from __linear_backward of the last layer on, given output_backward's outcome
BackwardOutput(c, acts, p, lt, g, doutput) ==
    IF doutput.exc # NoExc THEN [exc |-> doutput.exc, grads |-> g, layer_type |-> lt]
    ELSE BackwardLast(c, acts, p, lt, g,
                      linear_backward(c, acts, p, doutput.dA, Len(c)))

Backward(c, acts, p, lt, g, cost, prediction, mappings) ==
    BackwardOutput(c, acts, p, lt, g, output_backward(cost, prediction, mappings))

backward ==
    \E prediction \in Shapes, mappings \in Shapes :
        LET r == Backward(cache, activations, parameters, layer_type, grads,
                          cost_function, prediction, mappings)
        IN  /\ grads' = r.grads
            /\ layer_type' = r.layer_type
            /\ call' = [op |-> "backward", exc |-> r.exc,
                        phase |-> IF call.phase = 2 THEN 3 ELSE 0,
                        args |-> <<prediction, mappings>>]
            /\ UNCHANGED <<heap, instances, parameters, cache, activations, cost_function, lamb>>

\* the caller sets the regularization hyper-parameter (net.lamb = l)
SetLamb ==
    \E l \in Lambs :
        /\ lamb' = l
        /\ call' = [op |-> "set_lamb", exc |-> NoExc, phase |-> 0]
        /\ UNCHANGED <<heap, instances, parameters, cache, activations, cost_function, grads,
                       layer_type>>

\* ------------------------------------------------- instances and list objects
\* the list object made once for the default "activations: list = []"
DefaultList == 1

\* the value of self.activations of instance k
ActivationsOf(h, ins, k) == h[ins[k].activations]

\* NeuralNetwork(layer_dimensions) with the default list, or
\* NeuralNetwork(layer_dimensions, acts) with a list the caller has just
\* made: self.activations = activations keeps the reference, and
\* check_activations appends to the object it refers to
NewInstance(DA, AA, WV) ==
    \E layer_dimensions \in DA, acts \in AA, default \in BOOLEAN :
      \E vals \in Draws(layer_dimensions, WV) :
        LET st == initialize_parameters(EmptyDict, <<"">>, layer_dimensions, vals)
            passed == IF default THEN heap ELSE Append(heap, acts)
            ref == IF default THEN DefaultList ELSE Len(heap) + 1
        IN  /\ Len(instances) < MaxInstances
            /\ default => acts = <<>>
            /\ NumLayers(st.parameters) <= MaxLayers
            /\ heap' = [passed EXCEPT ![ref] = check_activations(@, st.parameters)]
            /\ instances' = Append(instances, [parameters |-> st.parameters,
                                                layer_type |-> st.layer_type,
                                                activations |-> ref])
            /\ call' = [op |-> "__init__", exc |-> NoExc, phase |-> 0,
                        args |-> <<layer_dimensions, passed[ref]>>,
                        self |-> Len(instances) + 1, ref |-> ref,
                        default |-> default]
            /\ UNCHANGED <<parameters, cache, activations, cost_function, lamb,
                           grads, layer_type>>

\* add_fcn on instance k: self.activations.append(i) for i in activations
InstanceAddFcn(DA, AA, WV) ==
    \E k \in 1..Len(instances), dims \in DA, acts \in AA :
      \E vals \in Draws(dims, WV) :
        LET st == initialize_parameters(instances[k].parameters,
                                        instances[k].layer_type, dims, vals)
        IN  /\ NumLayers(st.parameters) <= MaxLayers
            /\ Len(ActivationsOf(heap, instances, k)) + Len(acts) <= MaxLayers + 1
            /\ heap' = [heap EXCEPT ![instances[k].activations] = @ \o acts]
            /\ instances' = [instances EXCEPT ![k].parameters = st.parameters,
                                              ![k].layer_type = st.layer_type]
            /\ call' = [op |-> "add_fcn", exc |-> NoExc, phase |-> 0, self |-> k]
            /\ UNCHANGED <<parameters, cache, activations, cost_function, lamb,
                           grads, layer_type>>

\* check_activations on instance k
InstanceCheckActivations ==
    \E k \in 1..Len(instances) :
        /\ heap' = [heap EXCEPT ![instances[k].activations] =
                        check_activations(@, instances[k].parameters)]
        /\ call' = [op |-> "check_activations", exc |-> NoExc, phase |-> 0,
                    self |-> k]
        /\ UNCHANGED <<instances, parameters, cache, activations, cost_function,
                       lamb, grads, layer_type>>

\* ---------------------------------------------------------- specifications
\* The whole class as constructed (lamb stays 0: no method sets it).  Weights
\* are drawn from one value; add_fcn adds at most one layer per call.
Init == Construct(DimsArgs, ActsArgs, {1})

Next ==
    \/ add_fcn(DimsArgs1, ActsArgs1, {1})
    \/ CheckActivations
    \/ forward
    \/ MSELoss
    \/ CrossEntropyLoss
    \/ backward

Spec == Init /\ [][Next]_vars

\* The parameter store alone: construction and growth by up to two layers
\* per call, with every weight value and no activations given.
InitStore == Construct(DimsArgs, {<<>>}, WeightVals)

NextStore ==
    \/ add_fcn(DimsArgs2, {<<>>}, WeightVals)
    \/ CheckActivations

SpecStore == InitStore /\ [][NextStore]_vars

\* The loss functions under a regularization coefficient the caller sets.
InitLoss == Construct(DimsArgs, {<<>>}, WeightVals)

NextLoss ==
    \/ add_fcn(DimsArgs1, {<<>>}, WeightVals)
    \/ CheckActivations
    \/ SetLamb
    \/ forward
    \/ MSELoss
    \/ CrossEntropyLoss

SpecLoss == InitLoss /\ [][NextLoss]_vars

\* Several instances made by one program: the class has been defined (the
\* default list exists and is empty) and no instance has been made yet.
\* Every layer has one unit: the selector lists depend on the number of
\* layers only.
InitInstances ==
    /\ heap = <<<<>>>>
    /\ instances = <<>>
    /\ parameters = EmptyDict
    /\ cache = <<>>
    /\ activations = <<>>
    /\ cost_function = ""
    /\ lamb = 0
    /\ grads = EmptyDict
    /\ layer_type = <<"">>
    /\ call = [op |-> "class", exc |-> NoExc, phase |-> 0]

NextInstances ==
    \/ NewInstance(DimsArgsUnit, ActsArgs1, {1})
    \/ InstanceAddFcn(DimsArgsUnit, ActsArgs1, {1})
    \/ InstanceCheckActivations

SpecInstances == InitInstances /\ [][NextInstances]_vars

\* ------------------------------------------------------------- properties
\* the keys "W"+str(i), "b"+str(i) for i in lo .. hi
LayerKeys(lo, hi) == {Key(n, i) : n \in {"W", "b"}, i \in lo..hi}

\* C1: the numbers of weight tensors, of bias tensors and of activation
\* selectors all equal the layer count L = len(parameters)/2, after
\* construction and after any add_fcn calls.
C1_CountsEqualLayerCount ==
    /\ Cardinality({k \in DOMAIN parameters : k[1] = "W"}) = NumLayers(parameters)
    /\ Cardinality({k \in DOMAIN parameters : k[1] = "b"}) = NumLayers(parameters)
    /\ Len(activations) = NumLayers(parameters)

\* C2: every step leaves each existing W_i, b_i as it is, and the keys it adds
\* are exactly those of the layers L_old+1 .. L_new: nothing is overwritten,
\* no index is skipped.
C2_GrowthOnlyAppends ==
    [][/\ \A k \in DOMAIN parameters :
            k \in DOMAIN parameters' /\ parameters'[k] = parameters[k]
       /\ (DOMAIN parameters') \ (DOMAIN parameters) =
            LayerKeys(NumLayers(parameters) + 1, NumLayers(parameters'))]_vars

\* add_fcn has grown a network that had a layer: layers 1 and 2 do not chain,
\* so they come from two calls
C2_Witness ==
    /\ call.op = "add_fcn"
    /\ NumLayers(parameters) = 2
    /\ parameters[Key("W", 2)].shape[2] # parameters[Key("W", 1)].shape[1]

\* the shape of what the forward call that filled the cache returned
OutputShape == <<cache[Len(cache)].linear.W.shape[1],
                 cache[Len(cache)].linear.A_prev.shape[2]>>

\* C3: after a valid sequence ending in forward, a loss call and backward
\* (forward and the loss returned, backward is handed the output of forward
\* and a target of its shape, and the caller gave no more selectors than
\* there are layers), grads holds dW_i and db_i for every layer i of the
\* parameter store, each of the shape of W_i, b_i.
C3_GradientPerLayer ==
    (/\ call.op = "backward" /\ call.phase = 3
     /\ call.args[1] = OutputShape /\ call.args[2] = OutputShape
     /\ Len(activations) <= NumLayers(parameters)) =>
        /\ call.exc = NoExc
        /\ \A i \in 1..NumLayers(parameters) :
            /\ Key("dW", i) \in DOMAIN grads
            /\ Key("db", i) \in DOMAIN grads
            /\ grads[Key("dW", i)].shape = parameters[Key("W", i)].shape
            /\ grads[Key("db", i)].shape = parameters[Key("b", i)].shape

\* C4: forward or backward on a network without layers fails with an error
\* that names the empty network ("network has no layers").
C4_EmptyNetworkExplicitError ==
    (call.op \in {"forward", "backward"} /\ NumLayers(parameters) = 0) =>
        (call.exc.type # "none" /\ call.exc.at = "network has no layers")

\* C5: backward while cost_function is still '' fails with the error "loss
\* type not selected" and leaves grads as it was.
C5_UnsetLossExplicitError ==
    [][(call'.op = "backward" /\ cost_function = "") =>
           /\ call'.exc.type # "none"
           /\ call'.exc.at = "loss type not selected"
           /\ grads' = grads]_vars

\* C6: in every reachable state, for every layer i = 2..L the column count of
\* W_i is the row count of W_{i-1}.
C6_ChainConsistent ==
    \A i \in 2..NumLayers(parameters) :
        parameters[Key("W", i)].shape[2] = parameters[Key("W", i - 1)].shape[1]

\* C7: construction from n >= 2 dimensions yields exactly n-1 layers, W_i of
\* shape [dims[i], dims[i-1]], b_i of shape [dims[i], 1] with every entry 0.
C7_ConstructionShapes ==
    (call.op = "__init__" /\ Len(call.args[1]) >= 2) =>
        LET dims == call.args[1] IN
        /\ NumLayers(parameters) = Len(dims) - 1
        /\ DOMAIN parameters = LayerKeys(1, Len(dims) - 1)
        /\ \A i \in 1..(Len(dims) - 1) :
            /\ parameters[Key("W", i)].shape = <<dims[i + 1], dims[i]>>
            /\ parameters[Key("b", i)].shape = <<dims[i + 1], 1>>
            /\ parameters[Key("b", i)].val = 0

\* a network constructed from three dimensions
C7_Witness == call.op = "__init__" /\ Len(call.args[1]) = 3

\* C8: after a forward call that returned, the cache holds one record per
\* layer, in layer order, made by that call: record i holds W_i and b_i,
\* record 1 the input of the call, record i > 1 an input of the shape that
\* record i-1 produced.
C8_ForwardReplacesCache ==
    (call.op = "forward" /\ call.exc = NoExc) =>
        /\ Len(cache) = NumLayers(parameters)
        /\ \A i \in 1..Len(cache) :
            /\ cache[i].linear.W = parameters[Key("W", i)]
            /\ cache[i].linear.b = parameters[Key("b", i)]
            /\ IF i = 1 THEN cache[i].linear.A_prev = call.args[1]
               ELSE cache[i].linear.A_prev.shape = cache[i - 1].act[1]

\* a forward call has returned on two layers after an earlier forward and
\* backward (grads is set by a backward that found a cache)
C8_Witness ==
    /\ call.op = "forward" /\ call.exc = NoExc
    /\ NumLayers(parameters) = 2
    /\ DOMAIN grads # {}

\* every weight of every layer is 0
AllWeightsZero ==
    \A k \in DOMAIN parameters : k[1] = "W" => parameters[k].val = 0

\* C9: a loss call with a larger lamb, on the same parameters, prediction and
\* target, returns a strictly larger value, or an equal one only if all
\* weights are zero.  (The base loss and the denominator 2*batch are those of
\* the call made; the regularization numerators are compared.)
C9_RegularizationMonotone ==
    (call.op \in {"MSELoss", "CrossEntropyLoss"} /\ call.exc = NoExc) =>
        \A l \in Lambs, prediction \in Shapes, mappings \in Shapes :
            LET r == Loss(call.op, parameters, cache, l, prediction, mappings) IN
            (l > lamb /\ r.exc = NoExc /\ r.ret.den = call.ret.den) =>
                \/ r.ret.num > call.ret.num
                \/ r.ret.num = call.ret.num /\ AllWeightsZero

\* C10: forward and backward never index self.activations out of range.
C10_ActivationIndexInRange ==
    call.op \in {"forward", "backward"} =>
        call.exc # Exc("IndexError", "activations")

\* C11: the loss selector records the loss function called last (MSELoss sets
\* it to MSELoss, CrossEntropyLoss to CrossEntropyLoss, also when the call
\* raises; no other method changes it), and a backward call that returns
\* stores for the last cached layer a gradient derived with the formula of
\* that loss: prediction - mapping for MSELoss, the cross-entropy formula
\* for CrossEntropyLoss.
OutputFormula(cost) ==
    IF cost = "MSELoss" THEN "prediction-mapping"
    ELSE IF cost = "CrossEntropyLoss"
    THEN "-(mapping/prediction - (1-mapping)/(1-prediction))"
    ELSE "None"

C11_SelectorIsLastLoss ==
    [][/\ call'.op \in {"MSELoss", "CrossEntropyLoss"} => cost_function' = call'.op
       /\ call'.op \notin {"MSELoss", "CrossEntropyLoss"} => cost_function' = cost_function
       /\ (call'.op = "backward" /\ call'.exc = NoExc)
            => /\ cost_function \in {"MSELoss", "CrossEntropyLoss"}
               /\ Key("dW", Len(cache)) \in DOMAIN grads'
               /\ grads'[Key("dW", Len(cache))].fn = OutputFormula(cost_function)
               /\ grads'[Key("dA", Len(cache) - 1)].fn = OutputFormula(cost_function)]_vars

\* backward returned on a two-layer network after forward and MSELoss
C11_Witness ==
    /\ call.op = "backward" /\ call.exc = NoExc /\ call.phase = 3
    /\ cost_function = "MSELoss"
    /\ Len(cache) = 2
    /\ grads[Key("dW", 1)].fn = "prediction-mapping"

\* C12: in a forward call that returned, the final layer L applies its
\* selector and caches its pre-activation whenever the selector list holds a
\* selector for layer L (the result is the selector's function of Z, or Z
\* for the selector None, and the cached activation record is not empty).
C12_LastSelectorApplied ==
    (/\ call.op = "forward" /\ call.exc = NoExc
     /\ NumLayers(parameters) >= 1
     /\ Len(activations) >= NumLayers(parameters))
    => /\ call.ret.fn = (IF activations[NumLayers(parameters)] = "None" THEN "Z"
                         ELSE activations[NumLayers(parameters)])
       /\ cache[Len(cache)].act # <<NoShape>>

\* the function forward applied to layer l: the tag of the value passed on
\* to layer l+1, or of the returned value for the last layer
AppliedActivation(c, ret, l) ==
    IF l < Len(c) THEN c[l + 1].linear.A_prev.fn ELSE ret.fn

\* the function whose derivative __deactivate takes for layer l
DeactivatedActivation(acts, l) ==
    IF PyIndex(acts, l - 1) = 0 THEN "IndexError"
    ELSE IF acts[PyIndex(acts, l - 1)] = "None" THEN "Z"
    ELSE acts[PyIndex(acts, l - 1)]

\* C13: after a forward call that returned, for every cached layer l the
\* activation whose derivative backward takes for layer l is the one forward
\* applied to layer l, and a non-identity activation finds its
\* pre-activation in the activation record of layer l.
C13_ForwardBackwardConsistent ==
    (call.op = "forward" /\ call.exc = NoExc) =>
        \A l \in 1..Len(cache) :
            /\ DeactivatedActivation(activations, l) = AppliedActivation(cache, call.ret, l)
            /\ DeactivatedActivation(activations, l) # "Z" => cache[l].act # <<NoShape>>

\* C14: a call on one instance (its construction, add_fcn, check_activations)
\* never changes the activation selector list of another instance, and a
\* construction leaves the list the caller passed in as it was passed.
C14_InstanceIsolation ==
    [][/\ \A j \in 1..Len(instances) :
              j # call'.self =>
                  ActivationsOf(heap', instances', j) = ActivationsOf(heap, instances, j)
       /\ (call'.op = "__init__" /\ ~call'.default) =>
              heap'[call'.ref] = call'.args[2]]_vars

====
